---- MODULE Spec2Model ----
(***************************************************************************)
(* Model of scripts/generate-report.js, the compliance report generator:   *)
(* the artifact reader, the three summarizers, the six control rules, the  *)
(* Markdown renderer and the orchestration in main().                      *)
(*                                                                         *)
(* Representation.                                                         *)
(*  - A JSON value is a tagged record: [t |-> "null"], [t |-> "bool", v],  *)
(*    [t |-> "num", v], [t |-> "str", v], [t |-> "arr", v |-> sequence],   *)
(*    [t |-> "obj", v |-> function from its own keys to JSON values].      *)
(*    [t |-> "undefined"] is the result of reading a property that is not  *)
(*    there.                                                               *)
(*  - A JavaScript string built by the program is a Text: the sequence of  *)
(*    its pieces in order.  Every '|' character is a piece of its own, so   *)
(*    that escapeMarkdown acts on each of them.  A string that is null in   *)
(*    the program (result.error) is the empty Text; the program never      *)
(*    assigns the empty string to such a field.                            *)
(***************************************************************************)
EXTENDS Integers, Sequences, FiniteSets, TLC

VARIABLES
  pc,                    \* where main() is
  env,                   \* process.env: each name Undefined or a string
  timestamp,             \* new Date().toISOString() of line 34
  disk,                  \* per artifact, the file its read found
  results,               \* per artifact, Pending or its ArtifactReadResult
  summaries,             \* trivyFsSummary, trivyImageSummary, dockleSummary
  controls,              \* the verdicts of SEC-01..SEC-05
  allControlsForFile, overallStatusForFile, markdownContent,
  writeAttempts,         \* calls of fs.promises.writeFile
  writeSucceeded,
  reportFile,            \* compliance-report.md as the write found or left
                         \* it, <<>> before the write and for no file
  sec06,
  allControlsForConsole, finalOverallStatus, consoleMarkdown,
  stdout,                \* what console.log printed
  stderr,                \* the message each console.error starts with (the
                         \* text of the error printed behind it is left out)
  exitCode,              \* process.exitCode, 0 while unset
  call, ret              \* a single call of one function, and its result

mainVars ==
  <<pc, env, timestamp, disk, results, summaries, controls,
    allControlsForFile, overallStatusForFile, markdownContent,
    writeAttempts, writeSucceeded, reportFile, sec06,
    allControlsForConsole, finalOverallStatus, consoleMarkdown,
    stdout, stderr, exitCode>>

vars == <<mainVars, call, ret>>

STATUS_PASS == "PASS"
STATUS_FAIL == "FAIL"

CONTROL_IDS ==
  [SEC01 |-> "SEC-01", SEC02 |-> "SEC-02", SEC03 |-> "SEC-03",
   SEC04 |-> "SEC-04", SEC05 |-> "SEC-05", SEC06 |-> "SEC-06"]

FILES ==
  [gitleaks |-> "gitleaks.json", trivyFs |-> "trivy-fs.json",
   trivyImage |-> "trivy-image.json", dockle |-> "dockle.json",
   sbom |-> "sbom.json"]

TRIVY_SEVERITIES == <<"CRITICAL", "HIGH", "MEDIUM", "LOW", "UNKNOWN">>

Artifacts == {"gitleaks", "trivyFs", "trivyImage", "dockle", "sbom"}

-----------------------------------------------------------------------------
(* JSON values and the JavaScript operations the program applies to them.  *)

JNull == [t |-> "null"]
Undefined == [t |-> "undefined"]
JBool(b) == [t |-> "bool", v |-> b]
JNum(n) == [t |-> "num", v |-> n]
JStr(s) == [t |-> "str", v |-> s]
JArr(s) == [t |-> "arr", v |-> s]
JObj(f) == [t |-> "obj", v |-> f]
EmptyObj == JObj([k \in {} |-> JNull])

\* Array.isArray(x)
IsArray(x) == x.t = "arr"

\* typeof x === 'object' (true of null, arrays and objects)
TypeofObject(x) == x.t \in {"null", "arr", "obj"}

\* typeof x === 'number'
TypeofNumber(x) == x.t = "num"

\* ToBoolean(x): the truthiness the program's `x && ...`, `!x`, `x ? :` use
Truthy(x) ==
  CASE x.t = "undefined" -> FALSE
    [] x.t = "null" -> FALSE
    [] x.t = "bool" -> x.v
    [] x.t = "num" -> x.v # 0
    [] x.t = "str" -> x.v # ""
    [] OTHER -> TRUE

\* x.k, for an x that is not null or undefined (the program guards every
\* property read with `x &&`): own keys of an object, undefined otherwise.
\* The keys the program reads (findings, Results, level, ...) are no
\* built-in property of arrays, strings, numbers or booleans.
Get(x, k) ==
  IF x.t = "obj" /\ k \in DOMAIN x.v THEN x.v[k] ELSE Undefined

\* x.length of an array
Length(x) == Len(x.v)

\* String.prototype.toUpperCase on the strings of the input domains.
ToUpper(s) ==
  CASE s = "critical" -> "CRITICAL"
    [] s = "Critical" -> "CRITICAL"
    [] s = "high" -> "HIGH"
    [] s = "warn" -> "WARN"
    [] s = "Fatal" -> "FATAL"
    [] s = "error" -> "ERROR"
    [] s = "info" -> "INFO"
    [] s = "fatl" -> "FATL"
    [] s = "a|b" -> "A|B"
    [] s = "[object Object]" -> "[OBJECT OBJECT]"
    [] s = "true" -> "TRUE"
    [] OTHER -> s

\* String(x) throws a TypeError for an object whose own toString is not
\* callable (JSON can carry {"toString": 1}): the inherited valueOf returns
\* the object itself, so no primitive is found.
StringThrows(x) == x.t = "obj" /\ "toString" \in DOMAIN x.v

\* String(x) for the scalars and objects of the input domains.
String(x) ==
  CASE x.t = "str" -> x.v
    [] x.t = "num" -> ToString(x.v)
    [] x.t = "bool" -> IF x.v THEN "true" ELSE "false"
    [] x.t = "null" -> "null"
    [] OTHER -> "[object Object]"

\* The pieces of a string: every '|' and every line break is a piece of its
\* own.
Pieces(s) ==
  CASE s = "A|B" -> <<"A", "|", "B">>
    [] s = "a|b" -> <<"a", "|", "b">>
    [] s = "X\nY" -> <<"X", "\n", "Y">>
    [] OTHER -> <<s>>

\* Array.prototype.join on an array of Texts.
RECURSIVE Join(_, _)
Join(texts, sep) ==
  IF texts = <<>> THEN <<>>
  ELSE IF Len(texts) = 1 THEN Head(texts)
  ELSE Head(texts) \o sep \o Join(Tail(texts), sep)

-----------------------------------------------------------------------------
(* The artifact reader.                                                    *)
(* A file, as fs.promises.readFile finds it, is one of                     *)
(*   [kind |-> "ENOENT"]                      no such file                 *)
(*   [kind |-> "EIO", message |-> Text, syscall |-> "open", "read" or ""] *)
(*                                            any other read error: its    *)
(*                                            text and the system call     *)
(*                                            that failed, "" when the     *)
(*                                            error is raised by the       *)
(*                                            runtime itself               *)
(*   [kind |-> "content", json |-> TRUE, value |-> v]     text denoting v  *)
(*   [kind |-> "content", json |-> FALSE, message |-> Text]  not JSON      *)

\* path.join(dir, fileName)
PathJoin(dir, fileName) == dir \o <<"/", fileName>>

\* JSON.parse(content): the value, or a SyntaxError with its message
JSONparse(content) ==
  IF content.json
  THEN [ok |-> TRUE, value |-> content.value]
  ELSE [ok |-> FALSE, message |-> content.message]

\* error.message of a readFile that fails other than with ENOENT: to the
\* text of a failed system call the runtime appends the call and, when it
\* is the open, the path; an error of its own carries its text only
ReadErrorMessage(file, fullPath) ==
  IF file.syscall = "" THEN file.message
  ELSE IF file.syscall = "open"
  THEN file.message \o <<", open '">> \o fullPath \o <<"'">>
  ELSE file.message \o <<", ", file.syscall>>

\* readJsonArtifact setting parsed before JSON.parse has returned
readJsonArtifactParsedEarly(dir, fileName, file) ==
  LET result == [name |-> fileName, fullPath |-> PathJoin(dir, fileName),
                 found |-> FALSE, parsed |-> FALSE,
                 data |-> JNull, error |-> <<>>]
  IN  IF file.kind = "content"
      THEN LET p == JSONparse(file)
           IN  IF p.ok
               THEN [result EXCEPT !.found = TRUE, !.data = p.value,
                                   !.parsed = TRUE]
               ELSE [result EXCEPT !.found = TRUE, !.parsed = TRUE,
                                   !.error = <<"Invalid JSON: ">> \o p.message]
      ELSE IF file.kind = "ENOENT"
      THEN [result EXCEPT !.error = <<"File not found">>]
      ELSE [result EXCEPT !.found = TRUE,
                          !.error = <<"Read error: ">>
                                    \o ReadErrorMessage(file, result.fullPath)]

\* lines 132-163
readJsonArtifact(dir, fileName, file) ==
  LET result == [name |-> fileName, fullPath |-> PathJoin(dir, fileName),
                 found |-> FALSE, parsed |-> FALSE,
                 data |-> JNull, error |-> <<>>]
  IN  IF file.kind = "content"
      THEN LET p == JSONparse(file)
           IN  IF p.ok
               THEN [result EXCEPT !.found = TRUE, !.data = p.value,
                                   !.parsed = TRUE]
               ELSE [result EXCEPT !.found = TRUE,
                                   !.error = <<"Invalid JSON: ">> \o p.message]
      ELSE IF file.kind = "ENOENT"
      THEN [result EXCEPT !.error = <<"File not found">>]
      ELSE [result EXCEPT !.found = TRUE,
                          !.error = <<"Read error: ">>
                                    \o ReadErrorMessage(file, result.fullPath)]

-----------------------------------------------------------------------------
(* The secret-finding counter.  It returns {count, error}: count is JNull  *)
(* or a number, error is the empty Text (null) or the message.             *)

UnknownGitleaks ==
  [count |-> JNull,
   error |-> <<"Unknown Gitleaks JSON structure (no findings array found)">>]

\* inferGitleaksFindingCount looking at the numeric total before the arrays
inferGitleaksFindingCountTotalFirst(data) ==
  IF IsArray(data) THEN [count |-> JNum(Length(data)), error |-> <<>>]
  ELSE IF Truthy(data) /\ TypeofObject(data)
  THEN IF TypeofNumber(Get(data, "total"))
       THEN [count |-> Get(data, "total"), error |-> <<>>]
       ELSE IF IsArray(Get(data, "results"))
       THEN [count |-> JNum(Length(Get(data, "results"))), error |-> <<>>]
       ELSE IF IsArray(Get(data, "leaks"))
       THEN [count |-> JNum(Length(Get(data, "leaks"))), error |-> <<>>]
       ELSE IF IsArray(Get(data, "Leaks"))
       THEN [count |-> JNum(Length(Get(data, "Leaks"))), error |-> <<>>]
       ELSE IF IsArray(Get(data, "findings"))
       THEN [count |-> JNum(Length(Get(data, "findings"))), error |-> <<>>]
       ELSE UnknownGitleaks
  ELSE UnknownGitleaks

inferGitleaksFindingCount(data) ==
  IF IsArray(data) THEN [count |-> JNum(Length(data)), error |-> <<>>]
  ELSE IF Truthy(data) /\ TypeofObject(data)
  THEN IF IsArray(Get(data, "findings"))
       THEN [count |-> JNum(Length(Get(data, "findings"))), error |-> <<>>]
       ELSE IF IsArray(Get(data, "Leaks"))
       THEN [count |-> JNum(Length(Get(data, "Leaks"))), error |-> <<>>]
       ELSE IF IsArray(Get(data, "leaks"))
       THEN [count |-> JNum(Length(Get(data, "leaks"))), error |-> <<>>]
       ELSE IF IsArray(Get(data, "results"))
       THEN [count |-> JNum(Length(Get(data, "results"))), error |-> <<>>]
       ELSE IF TypeofNumber(Get(data, "total"))
       THEN [count |-> Get(data, "total"), error |-> <<>>]
       ELSE UnknownGitleaks
  ELSE UnknownGitleaks

-----------------------------------------------------------------------------
(* The vulnerability summarizer.  A summarizer returns JNull (null),       *)
(* [t |-> "summary", ...] or Thrown when String() raises a TypeError.      *)

Thrown == [t |-> "throw"]

SeveritySet == {TRIVY_SEVERITIES[i] : i \in DOMAIN TRIVY_SEVERITIES}

ZeroCounts == [s \in SeveritySet |-> 0]

\* the label a vulnerability entry is counted under (lines 426-429)
SeverityLabel(vuln) ==
  LET sev == IF Truthy(vuln) /\ Truthy(Get(vuln, "Severity"))
             THEN ToUpper(String(Get(vuln, "Severity")))
             ELSE "UNKNOWN"
  IN  IF sev \in SeveritySet THEN sev ELSE "UNKNOWN"

\* String(vuln.Severity) raises
VulnThrows(vuln) ==
  Truthy(vuln) /\ Truthy(Get(vuln, "Severity"))
  /\ StringThrows(Get(vuln, "Severity"))

\* the inner loop over result.Vulnerabilities
RECURSIVE CountVulns(_, _)
CountVulns(vulns, counts) ==
  IF vulns = <<>> THEN counts
  ELSE LET sev == SeverityLabel(Head(vulns))
       IN  CountVulns(Tail(vulns), [counts EXCEPT ![sev] = @ + 1])

\* the outer loop over data.Results
RECURSIVE CountResults(_, _)
CountResults(rs, counts) ==
  IF rs = <<>> THEN counts
  ELSE LET result == Head(rs)
       IN  IF ~Truthy(result) \/ ~IsArray(Get(result, "Vulnerabilities"))
           THEN CountResults(Tail(rs), counts)
           ELSE CountResults(Tail(rs),
                             CountVulns(Get(result, "Vulnerabilities").v, counts))

\* some String(vuln.Severity) of the traversal raises
TrivyThrows(rs) ==
  \E i \in DOMAIN rs :
    /\ Truthy(rs[i])
    /\ IsArray(Get(rs[i], "Vulnerabilities"))
    /\ \E j \in DOMAIN Get(rs[i], "Vulnerabilities").v :
         VulnThrows(Get(rs[i], "Vulnerabilities").v[j])

\* TRIVY_SEVERITIES.reduce((acc, sev) => acc + counts[sev], 0)
RECURSIVE SumCounts(_, _)
SumCounts(sevs, counts) ==
  IF sevs = <<>> THEN 0
  ELSE counts[Head(sevs)] + SumCounts(Tail(sevs), counts)

summarizeTrivyVulns(data) ==
  IF ~Truthy(data) \/ ~TypeofObject(data) \/ ~IsArray(Get(data, "Results"))
  THEN JNull
  ELSE IF TrivyThrows(Get(data, "Results").v) THEN Thrown
  ELSE LET counts == CountResults(Get(data, "Results").v, ZeroCounts)
       IN  [t |-> "summary",
            total |-> SumCounts(TRIVY_SEVERITIES, counts),
            counts |-> counts]

\* TRIVY_SEVERITIES.map(sev => `${sev}: ${summary.counts[sev] || 0}`)
RECURSIVE SeverityParts(_, _)
SeverityParts(sevs, counts) ==
  IF sevs = <<>> THEN <<>>
  ELSE <<<<Head(sevs), ": ", ToString(counts[Head(sevs)])>>>>
       \o SeverityParts(Tail(sevs), counts)

formatTrivySummary(label, summary) ==
  <<"Trivy ", label, ": total ", ToString(summary.total), ", ">>
  \o Join(SeverityParts(TRIVY_SEVERITIES, summary.counts), <<", ">>)

-----------------------------------------------------------------------------
(* The hardening summarizer.  counts is the object the code builds: the    *)
(* sequence of its entries [level, n] in insertion order, which is the     *)
(* order Object.entries lists them in (no level of the input domains is an *)
(* integer-like key).                                                      *)

\* counts[key], 0 standing for undefined
CountOf(counts, key) ==
  IF \E i \in DOMAIN counts : counts[i].level = key
  THEN counts[CHOOSE i \in DOMAIN counts : counts[i].level = key].n
  ELSE 0

\* bump(level) of lines 450-454, for a level whose String() does not raise
bump(counts, level) ==
  IF ~Truthy(level) THEN counts
  ELSE LET key == ToUpper(String(level))
       IN  IF \E i \in DOMAIN counts : counts[i].level = key
           THEN [i \in DOMAIN counts |->
                   IF counts[i].level = key
                   THEN [counts[i] EXCEPT !.n = @ + 1]
                   ELSE counts[i]]
           ELSE Append(counts, [level |-> key, n |-> 1])

\* `if (d && d.level) bump(d.level)` over an array of entries
RECURSIVE BumpDetails(_, _)
BumpDetails(counts, details) ==
  IF details = <<>> THEN counts
  ELSE LET d == Head(details)
       IN  BumpDetails(IF Truthy(d) /\ Truthy(Get(d, "level"))
                       THEN bump(counts, Get(d, "level"))
                       ELSE counts,
                       Tail(details))

\* the loop over the items of a top-level array (lines 457-464)
RECURSIVE BumpItems(_, _)
BumpItems(counts, items) ==
  IF items = <<>> THEN counts
  ELSE LET item == Head(items)
           own == IF Truthy(item) /\ Truthy(Get(item, "level"))
                  THEN bump(counts, Get(item, "level"))
                  ELSE counts
           nested == IF Truthy(item) /\ IsArray(Get(item, "details"))
                     THEN BumpDetails(own, Get(item, "details").v)
                     ELSE own
       IN  BumpItems(nested, Tail(items))

\* String(level) raises for an entry that is bumped
EntryThrows(d) ==
  Truthy(d) /\ Truthy(Get(d, "level")) /\ StringThrows(Get(d, "level"))

DetailsThrow(x) ==
  Truthy(x) /\ IsArray(Get(x, "details"))
  /\ \E j \in DOMAIN Get(x, "details").v : EntryThrows(Get(x, "details").v[j])

DockleThrows(data) ==
  IF IsArray(data)
  THEN \E i \in DOMAIN data.v : EntryThrows(data.v[i]) \/ DetailsThrow(data.v[i])
  ELSE IF Truthy(data) /\ TypeofObject(data)
  THEN DetailsThrow(data) \/ EntryThrows(data)
  ELSE FALSE

summarizeDockleFindings(data) ==
  IF DockleThrows(data) THEN Thrown
  ELSE IF IsArray(data)
  THEN [t |-> "summary", counts |-> BumpItems(<<>>, data.v)]
  ELSE IF Truthy(data) /\ TypeofObject(data)
  THEN LET fromDetails == IF IsArray(Get(data, "details"))
                          THEN BumpDetails(<<>>, Get(data, "details").v)
                          ELSE <<>>
           withLevel == IF Truthy(Get(data, "level"))
                        THEN bump(fromDetails, Get(data, "level"))
                        ELSE fromDetails
       IN  [t |-> "summary", counts |-> withLevel]
  ELSE JNull

-----------------------------------------------------------------------------
(* The six control rules.  A verdict is [id, status, details].  A summary  *)
(* argument is JNull or a summary record: `!summary` is summary = JNull.   *)

Verdict(id, status, details) ==
  [id |-> id, status |-> status, details |-> details]

\* evaluateSec01 taking an unknown structure for zero findings
evaluateSec01UnknownAsZero(gitleaksArtifact) ==
  LET id == CONTROL_IDS.SEC01
      r == inferGitleaksFindingCount(gitleaksArtifact.data)
  IN  IF ~gitleaksArtifact.found
      THEN Verdict(id, STATUS_FAIL, <<FILES.gitleaks, " not found">>)
      ELSE IF ~gitleaksArtifact.parsed
      THEN Verdict(id, STATUS_FAIL,
                   <<FILES.gitleaks, " is not valid JSON (">>
                   \o gitleaksArtifact.error \o <<")">>)
      ELSE IF r.error = <<>> /\ r.count.v > 0
      THEN Verdict(id, STATUS_FAIL,
                   <<"Gitleaks detected ", ToString(r.count.v),
                     " potential secret(s)">>)
      ELSE Verdict(id, STATUS_PASS,
                   <<"No secrets detected by Gitleaks (0 findings)">>)

evaluateSec01(gitleaksArtifact) ==
  LET id == CONTROL_IDS.SEC01
      r == inferGitleaksFindingCount(gitleaksArtifact.data)
  IN  IF ~gitleaksArtifact.found
      THEN Verdict(id, STATUS_FAIL, <<FILES.gitleaks, " not found">>)
      ELSE IF ~gitleaksArtifact.parsed
      THEN Verdict(id, STATUS_FAIL,
                   <<FILES.gitleaks, " is not valid JSON (">>
                   \o gitleaksArtifact.error \o <<")">>)
      ELSE IF r.error # <<>>
      THEN Verdict(id, STATUS_FAIL,
                   <<"Unable to determine findings in ", FILES.gitleaks, ": ">>
                   \o r.error)
      ELSE IF r.count.v > 0
      THEN Verdict(id, STATUS_FAIL,
                   <<"Gitleaks detected ", ToString(r.count.v),
                     " potential secret(s)">>)
      ELSE Verdict(id, STATUS_PASS,
                   <<"No secrets detected by Gitleaks (0 findings)">>)

\* the issues pushed for one of the two artifacts (lines 213-227)
Sec02Issues(artifact, fileName) ==
  IF ~artifact.found THEN <<<<fileName, " not found">>>>
  ELSE IF ~artifact.parsed
  THEN <<<<fileName, " is not valid JSON (">> \o artifact.error \o <<")">>>>
  ELSE <<>>

\* evaluateSec02 failing when a summary is unavailable
evaluateSec02NeedsSummary(trivyFsArtifact, trivyImageArtifact, fsSummary, imageSummary) ==
  LET id == CONTROL_IDS.SEC02
      issues == Sec02Issues(trivyFsArtifact, FILES.trivyFs)
                \o Sec02Issues(trivyImageArtifact, FILES.trivyImage)
  IN  IF Len(issues) > 0
      THEN Verdict(id, STATUS_FAIL, Join(issues, <<"; ">>))
      ELSE IF fsSummary = JNull \/ imageSummary = JNull
      THEN Verdict(id, STATUS_FAIL, <<"summary unavailable">>)
      ELSE Verdict(id, STATUS_PASS,
                   <<FILES.trivyFs, " and ", FILES.trivyImage,
                     " present and valid. ">>)

evaluateSec02(trivyFsArtifact, trivyImageArtifact, fsSummary, imageSummary) ==
  LET id == CONTROL_IDS.SEC02
      issues == Sec02Issues(trivyFsArtifact, FILES.trivyFs)
                \o Sec02Issues(trivyImageArtifact, FILES.trivyImage)
      fsSummaryText ==
        IF fsSummary # JNull THEN formatTrivySummary("FS", fsSummary)
        ELSE <<"Trivy FS: summary unavailable (unexpected JSON structure)">>
      imageSummaryText ==
        IF imageSummary # JNull THEN formatTrivySummary("Image", imageSummary)
        ELSE <<"Trivy image: summary unavailable (unexpected JSON structure)">>
  IN  IF Len(issues) > 0
      THEN Verdict(id, STATUS_FAIL, Join(issues, <<"; ">>))
      ELSE Verdict(id, STATUS_PASS,
                   <<FILES.trivyFs, " and ", FILES.trivyImage,
                     " present and valid. ">>
                   \o fsSummaryText \o <<"; ">> \o imageSummaryText)

\* Object.entries(counts).filter(([, c]) => c > 0).map(...) of lines 283-285
RECURSIVE LevelParts(_)
LevelParts(counts) ==
  IF counts = <<>> THEN <<>>
  ELSE (IF Head(counts).n > 0
        THEN <<Pieces(Head(counts).level) \o <<": ", ToString(Head(counts).n)>>>>
        ELSE <<>>)
       \o LevelParts(Tail(counts))

\* counts.FATAL || counts.FATL || 0
FatalCount(counts) ==
  IF CountOf(counts, "FATAL") # 0 THEN CountOf(counts, "FATAL")
  ELSE CountOf(counts, "FATL")

\* evaluateSec03 not looking at WARN
evaluateSec03NoWarn(dockleArtifact, dockleSummary) ==
  LET id == CONTROL_IDS.SEC03
  IN  IF ~dockleArtifact.found \/ ~dockleArtifact.parsed
      THEN Verdict(id, STATUS_FAIL, <<FILES.dockle, " not found or invalid">>)
      ELSE IF dockleSummary = JNull
      THEN Verdict(id, STATUS_PASS, <<FILES.dockle, " present and valid">>)
      ELSE IF FatalCount(dockleSummary.counts) > 0
              \/ CountOf(dockleSummary.counts, "ERROR") > 0
      THEN Verdict(id, STATUS_FAIL, <<"Dockle reported hardening issues">>)
      ELSE Verdict(id, STATUS_PASS, <<"Dockle scan clean">>)

evaluateSec03(dockleArtifact, dockleSummary) ==
  LET id == CONTROL_IDS.SEC03
      counts == dockleSummary.counts
      fatal == FatalCount(counts)
      error == CountOf(counts, "ERROR")
      warn == CountOf(counts, "WARN")
      parts == Join(LevelParts(counts), <<", ">>)
      summaryText == IF parts # <<>> THEN parts ELSE <<"no findings">>
  IN  IF ~dockleArtifact.found
      THEN Verdict(id, STATUS_FAIL, <<FILES.dockle, " not found">>)
      ELSE IF ~dockleArtifact.parsed
      THEN Verdict(id, STATUS_FAIL,
                   <<FILES.dockle, " is not valid JSON (">>
                   \o dockleArtifact.error \o <<")">>)
      ELSE IF dockleSummary = JNull
      THEN Verdict(id, STATUS_PASS,
                   <<FILES.dockle,
                     " present and valid (unable to infer finding levels; treating as informational)">>)
      ELSE IF fatal > 0 \/ error > 0 \/ warn > 0
      THEN Verdict(id, STATUS_FAIL,
                   <<"Dockle reported hardening issues (">>
                   \o summaryText \o <<")">>)
      ELSE Verdict(id, STATUS_PASS,
                   <<"Dockle scan clean (">> \o summaryText \o <<")">>)

\* the problems pushed by lines 309-314
Sec04Problems(trivyFsArtifact, trivyImageArtifact) ==
  (IF ~trivyFsArtifact.found \/ ~trivyFsArtifact.parsed
   THEN <<<<"Trivy FS scan missing or invalid">>>> ELSE <<>>)
  \o (IF ~trivyImageArtifact.found \/ ~trivyImageArtifact.parsed
      THEN <<<<"Trivy image scan missing or invalid">>>> ELSE <<>>)

\* evaluateSec04 counting the CRITICAL findings of the filesystem scan only
evaluateSec04FsOnly(trivyFsArtifact, trivyImageArtifact, fsSummary, imageSummary) ==
  LET id == CONTROL_IDS.SEC04
      problems == Sec04Problems(trivyFsArtifact, trivyImageArtifact)
  IN  IF Len(problems) > 0
      THEN Verdict(id, STATUS_FAIL, Join(problems, <<"; ">>))
      ELSE IF fsSummary = JNull \/ imageSummary = JNull
      THEN Verdict(id, STATUS_FAIL,
                   <<"Unable to interpret Trivy JSON structure to count vulnerabilities">>)
      ELSE IF fsSummary.counts["CRITICAL"] > 0
      THEN Verdict(id, STATUS_FAIL, <<"CRITICAL vulnerabilities detected. ">>)
      ELSE Verdict(id, STATUS_PASS,
                   <<"No CRITICAL vulnerabilities in Trivy scans. ">>)

evaluateSec04(trivyFsArtifact, trivyImageArtifact, fsSummary, imageSummary) ==
  LET id == CONTROL_IDS.SEC04
      problems == Sec04Problems(trivyFsArtifact, trivyImageArtifact)
      fsCrit == fsSummary.counts["CRITICAL"]
      imgCrit == imageSummary.counts["CRITICAL"]
      totalCrit == fsCrit + imgCrit
      fsText == formatTrivySummary("FS", fsSummary)
      imgText == formatTrivySummary("Image", imageSummary)
  IN  IF Len(problems) > 0
      THEN Verdict(id, STATUS_FAIL, Join(problems, <<"; ">>))
      ELSE IF fsSummary = JNull \/ imageSummary = JNull
      THEN Verdict(id, STATUS_FAIL,
                   <<"Unable to interpret Trivy JSON structure to count vulnerabilities">>)
      ELSE IF totalCrit > 0
      THEN Verdict(id, STATUS_FAIL,
                   <<"CRITICAL vulnerabilities detected. ">>
                   \o fsText \o <<"; ">> \o imgText)
      ELSE Verdict(id, STATUS_PASS,
                   <<"No CRITICAL vulnerabilities in Trivy scans. ">>
                   \o fsText \o <<"; ">> \o imgText)

evaluateSec05(sbomArtifact) ==
  LET id == CONTROL_IDS.SEC05
  IN  IF ~sbomArtifact.found
      THEN Verdict(id, STATUS_FAIL, <<FILES.sbom, " not found">>)
      ELSE IF ~sbomArtifact.parsed
      THEN Verdict(id, STATUS_FAIL,
                   <<FILES.sbom, " is not valid JSON (">>
                   \o sbomArtifact.error \o <<")">>)
      ELSE Verdict(id, STATUS_PASS,
                   <<FILES.sbom, " present and valid (SBOM generated)">>)

computeOverallStatus(cs) ==
  IF \A i \in DOMAIN cs : cs[i].status = STATUS_PASS
  THEN STATUS_PASS ELSE STATUS_FAIL

-----------------------------------------------------------------------------
(* The renderer.                                                           *)

\* the piece standing for the backquote character, which a TLA+ string
\* cannot hold
Backtick == "<backquote>"

\* process.env.X || fallback
EnvOr(x, fallback) == IF Truthy(x) THEN Pieces(x.v) ELSE fallback

\* ARTIFACT_DIR of lines 18-19
ARTIFACT_DIR == EnvOr(env.ARTIFACT_DIR, <<"/repo/artifacts">>)

\* String(text).replace(/\|/g, '\\|')
RECURSIVE escapeMarkdown(_)
escapeMarkdown(text) ==
  IF text = <<>> THEN <<>>
  ELSE (IF Head(text) = "|" THEN <<"\\", "|">> ELSE <<Head(text)>>)
       \o escapeMarkdown(Tail(text))

\* the table rows pushed by lines 519-524
RECURSIVE TableRows(_)
TableRows(cs) ==
  IF cs = <<>> THEN <<>>
  ELSE <<(<<"|", " ", Head(cs).id, " ", "|", " ", Head(cs).status, " ", "|", " ">>
          \o escapeMarkdown(Head(cs).details) \o <<" ", "|">>)>>
       \o TableRows(Tail(cs))

\* the failing-controls list holding every control
FailingControlsUnfiltered(cs) == cs

\* controls.filter((c) => c.status === STATUS_FAIL)
RECURSIVE FailingControls(_)
FailingControls(cs) ==
  IF cs = <<>> THEN <<>>
  ELSE (IF Head(cs).status = STATUS_FAIL THEN <<Head(cs)>> ELSE <<>>)
       \o FailingControls(Tail(cs))

\* the bullets pushed by lines 536-538
RECURSIVE FailingBullets(_)
FailingBullets(cs) ==
  IF cs = <<>> THEN <<>>
  ELSE <<(<<"- ", Head(cs).id, ": ">> \o Head(cs).details)>>
       \o FailingBullets(Tail(cs))

\* runUrl of lines 496-499
RunUrl ==
  LET repo == EnvOr(env.GITHUB_REPOSITORY, <<"n/a">>)
      runId == env.GITHUB_RUN_ID
      serverUrl == EnvOr(env.GITHUB_SERVER_URL, <<"https://github.com">>)
  IN  IF Truthy(runId) /\ repo # <<>>
      THEN serverUrl \o <<"/">> \o repo \o <<"/actions/runs/">> \o Pieces(runId.v)
      ELSE <<"n/a">>

\* the array `lines` when renderMarkdown returns
RenderLines(cs, overallStatus, ts) ==
  LET gitSha == EnvOr(env.GITHUB_SHA, <<"n/a">>)
      gitRef == EnvOr(env.GITHUB_REF, <<"n/a">>)
      repo == EnvOr(env.GITHUB_REPOSITORY, <<"n/a">>)
      failingControls == FailingControls(cs)
  IN  << <<"# Compliance Report">>,
         <<>>,
         <<"Generated at: ", Backtick, ts, Backtick>>,
         <<>>,
         <<"## Pipeline Context">>,
         <<>>,
         <<"- Commit: ", Backtick>> \o gitSha \o <<Backtick>>,
         <<"- Ref: ", Backtick>> \o gitRef \o <<Backtick>>,
         <<"- Repository: ", Backtick>> \o repo \o <<Backtick>>,
         <<"- Run URL: ">> \o RunUrl,
         <<>>,
         <<"## Control Summary">>,
         <<>>,
         <<"|", " Control ", "|", " Status ", "|", " Details ", "|">>,
         <<"|", "---------", "|", "--------", "|", "---------", "|">> >>
      \o TableRows(cs)
      \o << <<>>,
            <<"## Overall Status">>,
            <<>>,
            <<"**", overallStatus, "**">>,
            <<>> >>
      \o (IF Len(failingControls) > 0
          THEN << <<"### Failing Controls">>, <<>> >>
               \o FailingBullets(failingControls)
               \o << <<>> >>
          ELSE <<>>)

renderMarkdown(cs, overallStatus, ts) ==
  Join(RenderLines(cs, overallStatus, ts), <<"\n">>)

-----------------------------------------------------------------------------
(* Input domains: the files a run can find and the environment it runs in. *)

Obj1(k, x) == JObj([key \in {k} |-> x])
Obj2(k1, x1, k2, x2) == JObj([key \in {k1, k2} |-> IF key = k1 THEN x1 ELSE x2])

\* an array of n copies of x
Repeat(x, n) == JArr([i \in 1..n |-> x])

Missing == [kind |-> "ENOENT"]
\* a file the process may not open, and a directory in the place of the file
Unreadable ==
  [kind |-> "EIO", message |-> <<"EACCES: permission denied">>,
   syscall |-> "open"]
IsDirectory ==
  [kind |-> "EIO", message |-> <<"EISDIR: illegal operation on a directory">>,
   syscall |-> "read"]
\* a file of 2 GiB, which readFile refuses (ERR_FS_FILE_TOO_LARGE)
TooLarge ==
  [kind |-> "EIO",
   message |-> <<"File size (2147483648) is greater than 2 GiB">>,
   syscall |-> ""]
NotJson(msg) == [kind |-> "content", json |-> FALSE, message |-> msg]
JsonFile(x) == [kind |-> "content", json |-> TRUE, value |-> x]

Truncated == NotJson(<<"Unexpected end of JSON input">>)
\* a file holding | and one holding | and, on a second line, |: the message
\* of the SyntaxError quotes the file
BadToken ==
  NotJson(<<"Unexpected token '", "|", "', \"", "|", "\" is not valid JSON">>)
BadTokenLines ==
  NotJson(<<"Unexpected token '", "|", "', \"", "|", "\n", "|",
            "\" is not valid JSON">>)

Finding == Obj1("RuleID", JStr("generic-api-key"))
Vuln(sev) == Obj1("Severity", JStr(sev))
\* a vulnerability whose Severity is {"toString": 1}
PoisonedVuln == Obj1("Severity", Obj1("toString", JNum(1)))
TrivyDoc(vulns) ==
  Obj1("Results", JArr(<<Obj1("Vulnerabilities", JArr(vulns))>>))
Entry(level) == Obj1("level", JStr(level))

\* the files of a whole run
GitleaksRunFiles ==
  {Missing, Unreadable}
  \cup {JsonFile(x) : x \in {Repeat(Finding, 0), Repeat(Finding, 1),
                             EmptyObj, Obj1("total", JNum(-1))}}
TrivyRunFiles ==
  {Missing, Truncated}
  \cup {JsonFile(x) : x \in {TrivyDoc(<<>>), TrivyDoc(<<Vuln("critical")>>),
                             JNum(7), TrivyDoc(<<PoisonedVuln>>)}}
DockleRunFiles ==
  {Missing, BadToken, BadTokenLines}
  \cup {JsonFile(x) : x \in {Obj1("details", JArr(<<>>)), JArr(<<Entry("warn")>>),
                             JArr(<<Entry("FATL")>>), JStr("ok")}}
SbomRunFiles == {Missing, IsDirectory, JsonFile(EmptyObj)}

RunFiles(a) ==
  CASE a = "gitleaks" -> GitleaksRunFiles
    [] a = "trivyFs" -> TrivyRunFiles
    [] a = "trivyImage" -> TrivyRunFiles
    [] a = "dockle" -> DockleRunFiles
    [] a = "sbom" -> SbomRunFiles

EnvNames ==
  {"ARTIFACT_DIR", "GITHUB_SHA", "GITHUB_REF", "GITHUB_REPOSITORY",
   "GITHUB_RUN_ID", "GITHUB_SERVER_URL"}

Unset == [n \in EnvNames |-> Undefined]

InPipeline ==
  [Unset EXCEPT !["GITHUB_SHA"] = JStr("3f2a9c1"),
                !["GITHUB_REF"] = JStr("refs/heads/main"),
                !["GITHUB_REPOSITORY"] = JStr("acme/app"),
                !["GITHUB_RUN_ID"] = JStr("4711")]

RunEnvs == {Unset, InPipeline}

Timestamps == {"2026-01-01T00:00:00.000Z"}

-----------------------------------------------------------------------------
(* main() and main().catch                                                 *)

Pending == [t |-> "pending"]
NoVerdict == Verdict("", "", <<>>)
NoCall == [fn |-> "none"]
NoRet == [t |-> "none"]

reportPath == PathJoin(ARTIFACT_DIR, "compliance-report.md")

\* the state of a run before its first statement, but for the environment
\* and the report file
InitRun ==
  /\ pc = "start"
  /\ timestamp = ""
  /\ disk = [a \in Artifacts |-> Pending]
  /\ results = [a \in Artifacts |-> Pending]
  /\ summaries = [trivyFs |-> JNull, trivyImage |-> JNull, dockle |-> JNull]
  /\ controls = <<>>
  /\ allControlsForFile = <<>>
  /\ overallStatusForFile = ""
  /\ markdownContent = <<>>
  /\ writeAttempts = 0
  /\ writeSucceeded = FALSE
  /\ sec06 = NoVerdict
  /\ allControlsForConsole = <<>>
  /\ finalOverallStatus = ""
  /\ consoleMarkdown = <<>>
  /\ stdout = <<>>
  /\ stderr = <<>>
  /\ exitCode = 0

\* lines 32-42: ensureDir (a failed mkdir is logged), the timestamp, and the
\* five reads handed to Promise.all
EnsureDir ==
  /\ pc = "start"
  /\ \E mkdirOk \in BOOLEAN :
       stderr' = IF mkdirOk THEN stderr
                 ELSE Append(stderr, <<"WARNING: Failed to ensure directory ">>
                                     \o ARTIFACT_DIR \o <<":">>)
  /\ timestamp' \in Timestamps
  /\ pc' = "reading"
  /\ UNCHANGED <<env, disk, results, summaries, controls, allControlsForFile,
                 overallStatusForFile, markdownContent, writeAttempts,
                 writeSucceeded, reportFile, sec06, allControlsForConsole,
                 finalOverallStatus, consoleMarkdown, stdout, exitCode,
                 call, ret>>

\* the five reads in the order they are handed to Promise.all
ArtifactOrder == <<"gitleaks", "trivyFs", "trivyImage", "dockle", "sbom">>

\* a read whose result is taken in the order of completion: it lands in the
\* first name of line 36 that has no result yet
ReadDoneInCompletionOrder(a) ==
  /\ pc = "reading"
  /\ disk[a] = Pending
  /\ \E file \in RunFiles(a) :
       LET slot == ArtifactOrder[CHOOSE i \in DOMAIN ArtifactOrder :
                                   /\ results[ArtifactOrder[i]] = Pending
                                   /\ \A j \in 1..i - 1 :
                                        results[ArtifactOrder[j]] # Pending]
       IN  /\ disk' = [disk EXCEPT ![a] = file]
           /\ results' = [results EXCEPT
                            ![slot] = readJsonArtifact(ARTIFACT_DIR, FILES[a], file)]
  /\ UNCHANGED <<pc, env, timestamp, summaries, controls, allControlsForFile,
                 overallStatusForFile, markdownContent, writeAttempts,
                 writeSucceeded, reportFile, sec06, allControlsForConsole,
                 finalOverallStatus, consoleMarkdown, stdout, stderr, exitCode,
                 call, ret>>

\* one readJsonArtifact settles, with whatever file it found
ReadDone(a) ==
  /\ pc = "reading"
  /\ results[a] = Pending
  /\ \E file \in RunFiles(a) :
       /\ disk' = [disk EXCEPT ![a] = file]
       /\ results' = [results EXCEPT
                        ![a] = readJsonArtifact(ARTIFACT_DIR, FILES[a], file)]
  /\ UNCHANGED <<pc, env, timestamp, summaries, controls, allControlsForFile,
                 overallStatusForFile, markdownContent, writeAttempts,
                 writeSucceeded, reportFile, sec06, allControlsForConsole,
                 finalOverallStatus, consoleMarkdown, stdout, stderr, exitCode,
                 call, ret>>

AllRead == \A a \in Artifacts : results[a] # Pending

\* lines 44-52
TrivySummaryOf(artifact) ==
  IF artifact.parsed THEN summarizeTrivyVulns(artifact.data) ELSE JNull

DockleSummaryOf(artifact) ==
  IF artifact.parsed THEN summarizeDockleFindings(artifact.data) ELSE JNull

\* lines 54-64
ControlsOf(rs, sm) ==
  << evaluateSec01(rs.gitleaks),
     evaluateSec02(rs.trivyFs, rs.trivyImage, sm.trivyFs, sm.trivyImage),
     evaluateSec03(rs.dockle, sm.dockle),
     evaluateSec04(rs.trivyFs, rs.trivyImage, sm.trivyFs, sm.trivyImage),
     evaluateSec05(rs.sbom) >>

\* the file document rendered with the SEC-06 placeholder of lines 66-70
sec06NotYetGenerated ==
  Verdict(CONTROL_IDS.SEC06, STATUS_FAIL, <<"Report not yet generated">>)

sec06Tentative ==
  Verdict(CONTROL_IDS.SEC06, STATUS_PASS, <<"Compliance report generated">>)

\* the report an earlier run left in compliance-report.md: the one of a run
\* that found every artifact clean and wrote its document
CleanFiles ==
  [gitleaks |-> JsonFile(JArr(<<>>)), trivyFs |-> JsonFile(TrivyDoc(<<>>)),
   trivyImage |-> JsonFile(TrivyDoc(<<>>)),
   dockle |-> JsonFile(Obj1("details", JArr(<<>>))),
   sbom |-> JsonFile(EmptyObj)]

EarlierReport ==
  LET rs == [a \in Artifacts |->
               readJsonArtifact(ARTIFACT_DIR, FILES[a], CleanFiles[a])]
      sm == [trivyFs |-> TrivySummaryOf(rs.trivyFs),
             trivyImage |-> TrivySummaryOf(rs.trivyImage),
             dockle |-> DockleSummaryOf(rs.dockle)]
      forFile == Append(ControlsOf(rs, sm), sec06Tentative)
  IN  renderMarkdown(forFile, computeOverallStatus(forFile),
                     "2025-12-31T00:00:00.000Z")

\* what the run finds in compliance-report.md: nothing, or the report of an
\* earlier run
EarlierReports == {<<>>, EarlierReport}

InitMain == InitRun /\ env \in RunEnvs /\ reportFile = <<>>

Init == InitMain /\ call = NoCall /\ ret = NoRet

\* lines 44-84, run without interruption once Promise.all resolves: the
\* summaries, the five verdicts and the document for the file.  A TypeError
\* raised by a summarizer rejects main's promise.
Evaluate ==
  /\ pc = "reading"
  /\ AllRead
  /\ LET sm == [trivyFs |-> TrivySummaryOf(results.trivyFs),
                trivyImage |-> TrivySummaryOf(results.trivyImage),
                dockle |-> DockleSummaryOf(results.dockle)]
         cs == ControlsOf(results, sm)
         forFile == Append(cs, sec06Tentative)
     IN  IF \E k \in DOMAIN sm : sm[k] = Thrown
         THEN /\ pc' = "rejected"
              /\ UNCHANGED <<summaries, controls, sec06, allControlsForFile,
                             overallStatusForFile, markdownContent>>
         ELSE /\ pc' = "writing"
              /\ summaries' = sm
              /\ controls' = cs
              /\ sec06' = Verdict(CONTROL_IDS.SEC06, STATUS_FAIL,
                                  <<"Report not yet generated">>)
              /\ allControlsForFile' = forFile
              /\ overallStatusForFile' = computeOverallStatus(forFile)
              /\ markdownContent' =
                   renderMarkdown(forFile, computeOverallStatus(forFile), timestamp)
  /\ UNCHANGED <<env, timestamp, disk, results, writeAttempts, writeSucceeded,
                 reportFile, allControlsForConsole, finalOverallStatus,
                 consoleMarkdown, stdout, stderr, exitCode, call, ret>>

\* the bytes a piece of a Text stands for
PieceBytes(piece) == IF piece = Backtick THEN 1 ELSE Len(piece)

\* the bytes of the pieces i..j of a Text
RECURSIVE BytesIn(_, _, _)
BytesIn(doc, i, j) ==
  IF i > j THEN 0
  ELSE IF i = j THEN PieceBytes(doc[i])
  ELSE LET m == (i + j) \div 2
       IN  BytesIn(doc, i, m) + BytesIn(doc, m + 1, j)

Bytes(doc) == BytesIn(doc, 1, Len(doc))

\* where the first n of the bytes of the pieces i..j end: after `whole'
\* pieces of the Text and `rest' bytes of the next one
RECURSIVE CutAt(_, _, _, _)
CutAt(doc, i, j, n) ==
  IF i = j
  THEN IF n >= PieceBytes(doc[i]) THEN [whole |-> i, rest |-> 0]
                                  ELSE [whole |-> i - 1, rest |-> n]
  ELSE LET m == (i + j) \div 2
           b == BytesIn(doc, i, m)
       IN  IF n < b THEN CutAt(doc, i, m, n)
                    ELSE CutAt(doc, m + 1, j, n - b)

\* the first n bytes of a document, 0 <= n <= Bytes(doc): what a writeFile
\* that is cut off after n bytes leaves on disk
PartialWrite(doc, n) ==
  IF n = 0 THEN <<>>
  ELSE LET c == CutAt(doc, 1, Len(doc), n)
       IN  IF c.rest = 0 THEN SubSeq(doc, 1, c.whole)
           ELSE Append(SubSeq(doc, 1, c.whole),
                       SubSeq(doc[c.whole + 1], 1, c.rest))

MaxCut == 1    \* bytes from its end within which a document reading FAIL
               \* is cut

\* the bytes a failing write can get to disk after the open: any number
\* short of the document.  A document that reads PASS is cut at every byte;
\* one that reads FAIL before its first byte and within MaxCut bytes of its
\* end.
WriteLimits(doc) ==
  LET size == Bytes(doc)
  IN  IF overallStatusForFile = STATUS_PASS THEN 0..size - 1
      ELSE {n \in {0} \cup (size - MaxCut..size - 1) : 0 <= n /\ n < size}

\* what a writeFile that fails after the open leaves on disk: the open has
\* emptied the file, and the bytes written before the error (EFBIG, ENOSPC,
\* ...) are in it
PartialWrites(doc) == {PartialWrite(doc, n) : n \in WriteLimits(doc)}

\* lines 86-96: the one writeFile, which succeeds or fails
WriteFile ==
  /\ pc = "writing"
  /\ writeAttempts' = writeAttempts + 1
  /\ \/ /\ reportFile' = markdownContent
        /\ writeSucceeded' = TRUE
        /\ UNCHANGED stderr
     \/ /\ stderr' = Append(stderr,
                            <<"ERROR: Failed to write compliance report to ">>
                            \o reportPath \o <<":">>)
        /\ \/ reportFile' \in EarlierReports     \* the open failed: the
                                                \* file stays as it was
           \/ reportFile' \in PartialWrites(markdownContent)
        /\ UNCHANGED writeSucceeded
  /\ pc' = "written"
  /\ UNCHANGED <<env, timestamp, disk, results, summaries, controls,
                 allControlsForFile, overallStatusForFile, markdownContent,
                 sec06, allControlsForConsole, finalOverallStatus,
                 consoleMarkdown, stdout, exitCode, call, ret>>

\* lines 98-104
FinalSec06(ok) ==
  IF ok
  THEN Verdict(CONTROL_IDS.SEC06, STATUS_PASS,
               <<"Report generated at ">> \o reportPath)
  ELSE Verdict(CONTROL_IDS.SEC06, STATUS_FAIL,
               <<"Failed to generate report at ">> \o reportPath)

\* the console document reusing the status computed for the file
FinalOverallStatusReused(forFileStatus, forConsole) == forFileStatus

\* line 107
FinalOverallStatus(forFileStatus, forConsole) == computeOverallStatus(forConsole)

\* the exit code looking at the write alone
ExitCodeOfWriteOnly(ok, overall) == IF ~ok THEN 1 ELSE exitCode

\* line 119
ExitCodeOf(ok, overall) ==
  IF ~ok \/ overall = STATUS_FAIL THEN 1 ELSE exitCode

\* lines 98-121: the final SEC-06, the console document and the exit code
Finish ==
  /\ pc = "written"
  /\ LET final == FinalSec06(writeSucceeded)
         forConsole == Append(controls, final)
         overall == FinalOverallStatus(overallStatusForFile, forConsole)
         text == renderMarkdown(forConsole, overall, timestamp)
     IN  /\ sec06' = final
         /\ allControlsForConsole' = forConsole
         /\ finalOverallStatus' = overall
         /\ consoleMarkdown' = text
         /\ stdout' = stdout \o << <<"\n=== Compliance Report ===\n">>, text,
                                   <<"\n=== End of Compliance Report ===\n">> >>
         /\ exitCode' = ExitCodeOf(writeSucceeded, overall)
  /\ pc' = "exited"
  /\ UNCHANGED <<env, timestamp, disk, results, summaries, controls,
                 allControlsForFile, overallStatusForFile, markdownContent,
                 writeAttempts, writeSucceeded, reportFile, stderr, call, ret>>

\* lines 549-552
Catch ==
  /\ pc = "rejected"
  /\ stderr' = Append(stderr, <<"Unexpected error in generate-report.js:">>)
  /\ exitCode' = 1
  /\ pc' = "failed"
  /\ UNCHANGED <<env, timestamp, disk, results, summaries, controls,
                 allControlsForFile, overallStatusForFile, markdownContent,
                 writeAttempts, writeSucceeded, reportFile, sec06,
                 allControlsForConsole, finalOverallStatus, consoleMarkdown,
                 stdout, call, ret>>

Next ==
  \/ EnsureDir
  \/ \E a \in Artifacts : ReadDone(a)
  \/ Evaluate
  \/ WriteFile
  \/ Finish
  \/ Catch

Spec == Init /\ [][Next]_vars

-----------------------------------------------------------------------------
(* Single calls of the control rules, each on the artifact results and     *)
(* summaries main() would hand it for the files drawn: the reader and the  *)
(* summarizer run first, as in lines 36-52.                                *)

MaxFindings == 2    \* longest findings array of a secret-scan file
MaxTotal == 2       \* largest |total| of a secret-scan file
MaxVulns == 2       \* most vulnerability entries of a vulnerability file
MaxItems == 2       \* longest array of a hardening file

SeqsUpTo(S, n) == UNION {[1..k -> S] : k \in 0..n}

Aliases == {"findings", "Leaks", "leaks", "results"}

GitleaksValues ==
  {JNull, JNum(0), JStr("clean"), JBool(FALSE), EmptyObj}
  \cup {Repeat(Finding, n) : n \in 0..MaxFindings}
  \cup {Obj1(k, Repeat(Finding, n)) : k \in Aliases, n \in 0..MaxFindings}
  \cup {Obj1(k, JStr("none")) : k \in Aliases}
  \cup {Obj1("total", JNum(n)) : n \in (-MaxTotal)..MaxTotal}
  \cup {Obj1("total", JStr("0"))}
  \cup {Obj2("findings", Repeat(Finding, m), "leaks", Repeat(Finding, n)) :
          m, n \in 0..1}
  \cup {Obj2("results", JNull, "total", JNum(n)) : n \in 0..1}

GitleaksFiles ==
  {Missing, Unreadable, Truncated} \cup {JsonFile(x) : x \in GitleaksValues}

VulnEntries == {Vuln("CRITICAL"), Vuln("critical"), Vuln("HIGH"), EmptyObj}

TrivyValues ==
  {JNull, JNum(7), JArr(<<>>), EmptyObj, Obj1("Results", JStr("none"))}
  \cup {Obj1("Results", JArr(<<>>)), Obj1("Results", JArr(<<JNull>>)),
        Obj1("Results", JArr(<<EmptyObj>>)), TrivyDoc(<<PoisonedVuln>>)}
  \cup {TrivyDoc(vs) : vs \in SeqsUpTo(VulnEntries, MaxVulns)}

TrivyFiles ==
  {Missing, Unreadable, Truncated} \cup {JsonFile(x) : x \in TrivyValues}

Levels == {"FATAL", "Fatal", "warn", "ERROR", "INFO", "FATL"}

DockleEntries ==
  {Entry(l) : l \in Levels} \cup {Entry(""), EmptyObj, JNull}

DockleItems ==
  DockleEntries
  \cup {Obj2("level", JStr(l), "details", JArr(<<Entry(m)>>)) :
          l \in {"INFO", "warn"}, m \in {"FATAL", "INFO"}}

DockleValues ==
  {JNull, JNum(3), JStr("ok"), JBool(TRUE), EmptyObj,
   Obj1("details", JStr("none")), Obj1("level", Obj1("toString", JNum(1)))}
  \cup {JArr(items) : items \in SeqsUpTo(DockleItems, MaxItems)}
  \cup {Obj1("details", JArr(ds)) : ds \in SeqsUpTo(DockleEntries, MaxItems)}
  \cup {Obj2("details", JArr(ds), "level", JStr(l)) :
          ds \in SeqsUpTo(DockleEntries, MaxItems), l \in {"INFO", "Fatal", "FATL"}}

DockleFiles ==
  {Missing, Unreadable, IsDirectory, TooLarge, Truncated} \cup {JsonFile(x) : x \in DockleValues}

\* the values handed to inferGitleaksFindingCount alone: the values above and
\* the objects holding any of the five fields it looks at, each an array, a
\* number or a string
CountFields == Aliases \cup {"total"}

CountFieldValues ==
  {JStr("none"), JNum(1)} \cup {Repeat(Finding, n) : n \in 0..MaxFindings}

GitleaksCountValues ==
  GitleaksValues
  \cup {JObj(f) : f \in UNION {[K -> CountFieldValues] : K \in SUBSET CountFields}}

\* the values handed to summarizeTrivyVulns alone
VulnEntriesWide ==
  VulnEntries
  \cup {Vuln("Critical"), Vuln("high"), Vuln("MEDIUM"), Vuln("LOW"),
        Vuln("UNKNOWN"), Vuln("NEGLIGIBLE"), JNull,
        Obj1("Severity", JNum(5)), Obj1("Severity", JNull)}

ResultEntries ==
  {JNull, EmptyObj, JStr("none"), Obj1("Vulnerabilities", JNull),
   Obj1("Vulnerabilities", JArr(<<>>)),
   Obj1("Vulnerabilities", JArr(<<Vuln("HIGH")>>)),
   Obj1("Vulnerabilities", JArr(<<Vuln("critical"), Vuln("LOW")>>)),
   Obj1("Vulnerabilities", JArr(<<PoisonedVuln>>))}

TrivySummaryValues ==
  TrivyValues
  \cup {TrivyDoc(vs) : vs \in SeqsUpTo(VulnEntriesWide, MaxVulns)}
  \cup {Obj1("Results", JArr(rs)) : rs \in SeqsUpTo(ResultEntries, 2)}

\* the values handed to summarizeDockleFindings alone
PoisonedEntry == Obj1("level", Obj1("toString", JNum(1)))

DockleSummaryValues ==
  DockleValues
  \cup {JArr(<<PoisonedEntry>>), JArr(<<Entry("warn"), PoisonedEntry>>),
        Obj1("details", JArr(<<PoisonedEntry>>)),
        JArr(<<Obj1("details", JArr(<<PoisonedEntry>>))>>),
        JArr(<<Obj1("level", JNum(0))>>), JArr(<<Obj1("level", JBool(TRUE))>>),
        Obj2("details", JStr("none"), "level", JStr("warn")),
        Obj1("severity", JStr("FATAL"))}

\* the files behind the verdicts handed to renderMarkdown alone
RenderGitleaksFiles ==
  {Missing, JsonFile(Repeat(Finding, 0)), JsonFile(Repeat(Finding, 1))}
RenderTrivyFiles == {Missing, JsonFile(TrivyDoc(<<>>))}
RenderDockleFiles ==
  {Missing, BadToken, BadTokenLines}
  \cup {JsonFile(JArr(items)) :
          items \in {<<>>, <<Entry("warn")>>, <<Entry("a|b")>>,
                     <<Entry("X\nY")>>}}
RenderSbomFiles == {Missing, JsonFile(EmptyObj)}

\* every choice of the four pipeline variables being set or not
RenderEnvs ==
  {[n \in EnvNames |-> IF n \in S THEN InPipeline[n] ELSE Undefined] :
     S \in SUBSET {"GITHUB_SHA", "GITHUB_REF", "GITHUB_REPOSITORY",
                   "GITHUB_RUN_ID"}}

Calls ==
  {[fn |-> "evaluateSec01", file |-> f] : f \in GitleaksFiles}
  \cup {[fn |-> "evaluateSec03", file |-> f] : f \in DockleFiles}
  \cup {[fn |-> fn, fsFile |-> f, imageFile |-> g] :
          fn \in {"evaluateSec02", "evaluateSec04"},
          f \in TrivyFiles, g \in TrivyFiles}
  \cup {[fn |-> "inferGitleaksFindingCount", data |-> x] :
          x \in GitleaksCountValues}
  \cup {[fn |-> "summarizeTrivyVulns", data |-> x] : x \in TrivySummaryValues}
  \cup {[fn |-> "summarizeDockleFindings", data |-> x] :
          x \in DockleSummaryValues}
  \cup {[fn |-> "renderMarkdown", gitleaks |-> g, trivy |-> t, dockle |-> d,
         sbom |-> b, sec06 |-> w, ts |-> ts] :
          g \in RenderGitleaksFiles, t \in RenderTrivyFiles,
          d \in RenderDockleFiles, b \in RenderSbomFiles,
          w \in {"tentative", "written", "failed"}, ts \in Timestamps}

\* renderMarkdown reads process.env: its calls are drawn with every
\* environment, the other calls with those of a whole run
CallEnvs(c) == IF c.fn = "renderMarkdown" THEN RenderEnvs ELSE RunEnvs

InitFn ==
  /\ call \in Calls
  /\ ret = NoRet
  /\ env \in CallEnvs(call)
  /\ reportFile = <<>>
  /\ InitRun

Returned(verdict) == [t |-> "returned", verdict |-> verdict]

ApplySec01 ==
  /\ call.fn = "evaluateSec01"
  /\ ret = NoRet
  /\ LET gitleaks == readJsonArtifact(ARTIFACT_DIR, FILES.gitleaks, call.file)
     IN  ret' = Returned(evaluateSec01(gitleaks))
  /\ UNCHANGED <<mainVars, call>>

ApplySec02 ==
  /\ call.fn = "evaluateSec02"
  /\ ret = NoRet
  /\ LET trivyFs == readJsonArtifact(ARTIFACT_DIR, FILES.trivyFs, call.fsFile)
         trivyImage ==
           readJsonArtifact(ARTIFACT_DIR, FILES.trivyImage, call.imageFile)
         fsSummary == TrivySummaryOf(trivyFs)
         imageSummary == TrivySummaryOf(trivyImage)
     IN  ret' = IF fsSummary = Thrown \/ imageSummary = Thrown THEN Thrown
                ELSE Returned(evaluateSec02(trivyFs, trivyImage,
                                            fsSummary, imageSummary))
  /\ UNCHANGED <<mainVars, call>>

ApplySec03 ==
  /\ call.fn = "evaluateSec03"
  /\ ret = NoRet
  /\ LET dockle == readJsonArtifact(ARTIFACT_DIR, FILES.dockle, call.file)
         dockleSummary == DockleSummaryOf(dockle)
     IN  ret' = IF dockleSummary = Thrown THEN Thrown
                ELSE Returned(evaluateSec03(dockle, dockleSummary))
  /\ UNCHANGED <<mainVars, call>>

ApplySec04 ==
  /\ call.fn = "evaluateSec04"
  /\ ret = NoRet
  /\ LET trivyFs == readJsonArtifact(ARTIFACT_DIR, FILES.trivyFs, call.fsFile)
         trivyImage ==
           readJsonArtifact(ARTIFACT_DIR, FILES.trivyImage, call.imageFile)
         fsSummary == TrivySummaryOf(trivyFs)
         imageSummary == TrivySummaryOf(trivyImage)
     IN  ret' = IF fsSummary = Thrown \/ imageSummary = Thrown THEN Thrown
                ELSE Returned(evaluateSec04(trivyFs, trivyImage,
                                            fsSummary, imageSummary))
  /\ UNCHANGED <<mainVars, call>>

ReturnedValue(x) == [t |-> "returned", value |-> x]

ApplyInferGitleaks ==
  /\ call.fn = "inferGitleaksFindingCount"
  /\ ret = NoRet
  /\ ret' = ReturnedValue(inferGitleaksFindingCount(call.data))
  /\ UNCHANGED <<mainVars, call>>

ApplySummarizeTrivy ==
  /\ call.fn = "summarizeTrivyVulns"
  /\ ret = NoRet
  /\ LET summary == summarizeTrivyVulns(call.data)
     IN  ret' = IF summary = Thrown THEN Thrown ELSE ReturnedValue(summary)
  /\ UNCHANGED <<mainVars, call>>

ApplySummarizeDockle ==
  /\ call.fn = "summarizeDockleFindings"
  /\ ret = NoRet
  /\ LET summary == summarizeDockleFindings(call.data)
     IN  ret' = IF summary = Thrown THEN Thrown ELSE ReturnedValue(summary)
  /\ UNCHANGED <<mainVars, call>>

\* renderMarkdown on the six verdicts main() would hand it for the files
\* drawn: the five of lines 54-64 and the SEC-06 of line 73 or of lines 98-104
ApplyRender ==
  /\ call.fn = "renderMarkdown"
  /\ ret = NoRet
  /\ LET rs == [gitleaks |->
                  readJsonArtifact(ARTIFACT_DIR, FILES.gitleaks, call.gitleaks),
                trivyFs |->
                  readJsonArtifact(ARTIFACT_DIR, FILES.trivyFs, call.trivy),
                trivyImage |->
                  readJsonArtifact(ARTIFACT_DIR, FILES.trivyImage, call.trivy),
                dockle |->
                  readJsonArtifact(ARTIFACT_DIR, FILES.dockle, call.dockle),
                sbom |-> readJsonArtifact(ARTIFACT_DIR, FILES.sbom, call.sbom)]
         sm == [trivyFs |-> TrivySummaryOf(rs.trivyFs),
                trivyImage |-> TrivySummaryOf(rs.trivyImage),
                dockle |-> DockleSummaryOf(rs.dockle)]
         last == IF call.sec06 = "tentative" THEN sec06Tentative
                 ELSE FinalSec06(call.sec06 = "written")
         cs == Append(ControlsOf(rs, sm), last)
         overall == computeOverallStatus(cs)
     IN  ret' = [t |-> "returned", controls |-> cs, overallStatus |-> overall,
                 text |-> renderMarkdown(cs, overall, call.ts)]
  /\ UNCHANGED <<mainVars, call>>

NextFn ==
  \/ ApplySec01
  \/ ApplySec02
  \/ ApplySec03
  \/ ApplySec04
  \/ ApplyInferGitleaks
  \/ ApplySummarizeTrivy
  \/ ApplySummarizeDockle
  \/ ApplyRender

SpecFn == InitFn /\ [][NextFn]_vars

-----------------------------------------------------------------------------
(* What the claims speak of.                                               *)

Absent(f) == f.kind = "ENOENT"
ValidJson(f) == f.kind = "content" /\ f.json
\* present but unreadable, or not JSON
Malformed(f) == ~Absent(f) /\ ~ValidJson(f)

\* valid JSON of a shape the counter or summarizer does not recognise
NoCount(f) == ValidJson(f) /\ inferGitleaksFindingCount(f.value).count = JNull
NoTrivySummary(f) == ValidJson(f) /\ summarizeTrivyVulns(f.value) = JNull
NoDockleSummary(f) == ValidJson(f) /\ summarizeDockleFindings(f.value) = JNull

ControlIdSet == {CONTROL_IDS[k] : k \in DOMAIN CONTROL_IDS}

\* the positions at which the lines of a document start
LineStarts(doc) ==
  {1} \cup {i + 1 : i \in {j \in DOMAIN doc : doc[j] = "\n"}}

\* the lines that are rows of the Control Summary table: | id | status | ...
RowStarts(doc) ==
  {p \in LineStarts(doc) :
     /\ p + 8 <= Len(doc)
     /\ doc[p] = "|" /\ doc[p + 1] = " " /\ doc[p + 2] \in ControlIdSet
     /\ doc[p + 3] = " " /\ doc[p + 4] = "|"}

\* the rows of a document, as [at, id, status]
DocRows(doc) ==
  {[at |-> p, id |-> doc[p + 2], status |-> doc[p + 6]] : p \in RowStarts(doc)}

\* the statuses a document prints in bold under Overall Status
DocOverall(doc) ==
  {doc[p + 1] : p \in {q \in LineStarts(doc) :
                         q + 2 <= Len(doc) /\ doc[q] = "**" /\ doc[q + 2] = "**"}}

DocStatusConsistent(doc) ==
  doc # <<>> =>
    /\ DocRows(doc) # {}
    /\ DocOverall(doc) =
         {IF \A r \in DocRows(doc) : r.status = STATUS_PASS
          THEN STATUS_PASS ELSE STATUS_FAIL}

\* the status a document shows for SEC-06
DocSec06(doc) ==
  {r.status : r \in {x \in DocRows(doc) : x.id = CONTROL_IDS.SEC06}}

Ended == pc \in {"exited", "failed"}
\* the writeFile of this run put the whole document on disk
Written == writeSucceeded /\ reportFile = markdownContent

-----------------------------------------------------------------------------
(* Claims                                                                  *)

\* C1: when main has ended, the exit status is zero exactly when the report
\* was written and the run produced six final verdicts that are all PASS; a
\* failing verdict, a failed write or an error escaping main gives non-zero.
C1_ExitStatus ==
  Ended =>
    (exitCode = 0 <=>
       /\ pc = "exited"
       /\ Written
       /\ Len(allControlsForConsole) = 6
       /\ \A i \in DOMAIN allControlsForConsole :
            allControlsForConsole[i].status = STATUS_PASS)

C1_Witness == pc = "exited" /\ Written /\ exitCode = 0

\* C2 as stated: every control fails whenever its evidence is missing,
\* malformed or of an unrecognised shape.
C2_FailClosedAllSix ==
  controls # <<>> =>
    /\ (~ValidJson(disk.gitleaks) \/ NoCount(disk.gitleaks))
         => controls[1].status = STATUS_FAIL
    /\ (\E a \in {"trivyFs", "trivyImage"} :
          ~ValidJson(disk[a]) \/ NoTrivySummary(disk[a]))
         => controls[2].status = STATUS_FAIL /\ controls[4].status = STATUS_FAIL
    /\ (~ValidJson(disk.dockle) \/ NoDockleSummary(disk.dockle))
         => controls[3].status = STATUS_FAIL
    /\ ~ValidJson(disk.sbom) => controls[5].status = STATUS_FAIL
    /\ (pc = "exited" /\ ~Written) => sec06.status = STATUS_FAIL

\* C2 amended: every control fails when its evidence is missing or
\* malformed, SEC-01 and SEC-04 also when it is valid JSON of an
\* unrecognised shape; SEC-03 passes on valid JSON from which no summary can
\* be derived, and SEC-02 passes whenever both scans are valid JSON.
C2_FailClosed ==
  controls # <<>> =>
    /\ (~ValidJson(disk.gitleaks) \/ NoCount(disk.gitleaks))
         => controls[1].status = STATUS_FAIL
    /\ (\E a \in {"trivyFs", "trivyImage"} : ~ValidJson(disk[a]))
         => controls[2].status = STATUS_FAIL
    /\ (\A a \in {"trivyFs", "trivyImage"} : ValidJson(disk[a]))
         => controls[2].status = STATUS_PASS
    /\ (\E a \in {"trivyFs", "trivyImage"} :
          ~ValidJson(disk[a]) \/ NoTrivySummary(disk[a]))
         => controls[4].status = STATUS_FAIL
    /\ ~ValidJson(disk.dockle) => controls[3].status = STATUS_FAIL
    /\ NoDockleSummary(disk.dockle) => controls[3].status = STATUS_PASS
    /\ ~ValidJson(disk.sbom) => controls[5].status = STATUS_FAIL
    /\ (pc = "exited" /\ ~Written) => sec06.status = STATUS_FAIL

C2_Witness ==
  /\ pc = "exited"
  /\ ~Written
  /\ NoCount(disk.gitleaks)
  /\ NoDockleSummary(disk.dockle)
  /\ NoTrivySummary(disk.trivyFs)
  /\ ValidJson(disk.trivyImage)
  /\ Absent(disk.sbom)
  /\ controls[3].status = STATUS_PASS

\* C3: each document a run renders (the one handed to writeFile, the one
\* printed) shows overall PASS exactly when every row of its own table is
\* PASS, and FAIL otherwise.
C3_OverallFromOwnVerdicts ==
  /\ DocStatusConsistent(markdownContent)
  /\ DocStatusConsistent(consoleMarkdown)
  /\ markdownContent # <<>> =>
       overallStatusForFile = computeOverallStatus(allControlsForFile)
  /\ consoleMarkdown # <<>> =>
       finalOverallStatus = computeOverallStatus(allControlsForConsole)

\* the two documents of one run disagree on the overall status
C3_Witness ==
  /\ pc = "exited"
  /\ DocOverall(markdownContent) = {STATUS_PASS}
  /\ DocOverall(consoleMarkdown) = {STATUS_FAIL}

\* the verdict returned by the call of rule `fn`, if it has returned
ReturnedBy(fn) == call.fn = fn /\ ret # NoRet /\ ret # Thrown

\* the summaries main() derives from the two vulnerability files of a call
FsSummary == summarizeTrivyVulns(call.fsFile.value)
ImageSummary == summarizeTrivyVulns(call.imageFile.value)
\* the summary main() derives from the hardening file of a call
DockleSummary == summarizeDockleFindings(call.file.value)

\* C4 as stated: SEC-01 is PASS exactly when the secret-scan file is found,
\* is valid JSON and its inferred finding count is 0, for every parsed
\* value, a numeric total of any value included.
C4_Sec01PassIffCountZero ==
  ReturnedBy("evaluateSec01") =>
    /\ ret.verdict.status \in {STATUS_PASS, STATUS_FAIL}
    /\ ret.verdict.status = STATUS_PASS <=>
         /\ ValidJson(call.file)
         /\ inferGitleaksFindingCount(call.file.value).count = JNum(0)

\* C5: SEC-04 is PASS exactly when both vulnerability files are found, valid
\* JSON and summarizable and their CRITICAL counts add up to 0, and FAIL
\* otherwise; the counts of the other severities do not enter.
C5_Sec04CriticalOnly ==
  ReturnedBy("evaluateSec04") =>
    /\ ret.verdict.id = CONTROL_IDS.SEC04
    /\ ret.verdict.status \in {STATUS_PASS, STATUS_FAIL}
    /\ ret.verdict.status = STATUS_PASS <=>
         /\ ValidJson(call.fsFile) /\ ValidJson(call.imageFile)
         /\ FsSummary # JNull /\ ImageSummary # JNull
         /\ FsSummary.counts["CRITICAL"] + ImageSummary.counts["CRITICAL"] = 0

\* SEC-04 passes although both scans report HIGH findings
C5_Witness ==
  /\ ReturnedBy("evaluateSec04")
  /\ ret.verdict.status = STATUS_PASS
  /\ FsSummary.counts["HIGH"] > 0
  /\ ImageSummary.counts["HIGH"] > 0

\* C6 as stated: SEC-03 is PASS exactly when the hardening file is found, is
\* valid JSON and either has no summary or has no finding at FATAL, ERROR
\* and WARN; findings at any other level do not change the status.
C6_Sec03ThreeLevels ==
  ReturnedBy("evaluateSec03") =>
    /\ ret.verdict.status \in {STATUS_PASS, STATUS_FAIL}
    /\ ret.verdict.status = STATUS_PASS <=>
         /\ ValidJson(call.file)
         /\ \/ DockleSummary = JNull
            \/ \A l \in {"FATAL", "ERROR", "WARN"} :
                 CountOf(DockleSummary.counts, l) = 0

\* C6 amended: SEC-03 is PASS exactly when the hardening file is found, is
\* valid JSON and either has no summary or has no finding at FATAL, FATL,
\* ERROR and WARN; it is FAIL when the file is missing or invalid or the
\* summary has a finding at one of these four levels.  Findings at any
\* other level do not change the status.
C6_Sec03FourLevels ==
  ReturnedBy("evaluateSec03") =>
    /\ ret.verdict.id = CONTROL_IDS.SEC03
    /\ ret.verdict.status \in {STATUS_PASS, STATUS_FAIL}
    /\ ret.verdict.status = STATUS_PASS <=>
         /\ ValidJson(call.file)
         /\ \/ DockleSummary = JNull
            \/ \A l \in {"FATAL", "FATL", "ERROR", "WARN"} :
                 CountOf(DockleSummary.counts, l) = 0

\* SEC-03 fails on findings at FATL and INFO alone
C6_Witness ==
  /\ ReturnedBy("evaluateSec03")
  /\ ret.verdict.status = STATUS_FAIL
  /\ ValidJson(call.file)
  /\ CountOf(DockleSummary.counts, "FATL") > 0
  /\ CountOf(DockleSummary.counts, "INFO") > 0
  /\ \A l \in {"FATAL", "ERROR", "WARN"} : CountOf(DockleSummary.counts, l) = 0

\* C7: SEC-02 is PASS exactly when both vulnerability files are found and
\* valid JSON, and FAIL otherwise, whatever they contain and whether or not
\* they can be summarized.
C7_Sec02PresenceOnly ==
  ReturnedBy("evaluateSec02") =>
    /\ ret.verdict.id = CONTROL_IDS.SEC02
    /\ ret.verdict.status \in {STATUS_PASS, STATUS_FAIL}
    /\ ret.verdict.status = STATUS_PASS <=>
         ValidJson(call.fsFile) /\ ValidJson(call.imageFile)

\* SEC-02 passes on a scan that cannot be summarized and one with a
\* CRITICAL finding
C7_Witness ==
  /\ ReturnedBy("evaluateSec02")
  /\ ret.verdict.status = STATUS_PASS
  /\ FsSummary = JNull
  /\ ImageSummary # JNull
  /\ ImageSummary.counts["CRITICAL"] > 0

\* C8 as stated: every run calls writeFile exactly once; the document handed
\* to it shows SEC-06 as PASS; the SEC-06 of the console document and of the
\* exit decision is PASS if the write succeeded and FAIL if it failed.
C8_OneWriteAttempt ==
  /\ writeAttempts <= 1
  /\ Ended => writeAttempts = 1
  /\ markdownContent # <<>> => DocSec06(markdownContent) = {STATUS_PASS}
  /\ pc = "exited" =>
       /\ DocSec06(consoleMarkdown)
            = {IF Written THEN STATUS_PASS ELSE STATUS_FAIL}
       /\ sec06.status = IF Written THEN STATUS_PASS ELSE STATUS_FAIL

\* C9 as stated: whenever the write succeeded, the text printed on the
\* console is the text written to compliance-report.md.
C9_ConsoleEqualsFile ==
  (pc = "exited" /\ Written) => consoleMarkdown = reportFile

\* C10: every result of readJsonArtifact has found = false exactly for an
\* absent file, found and not parsed for a file that is not valid JSON,
\* found and parsed with the parsed value as data for valid JSON; parsed
\* implies found, data is set only when parsed, and an error is recorded
\* exactly when not parsed.
C10_ReadOutcomes ==
  \A a \in Artifacts :
    results[a] # Pending =>
      LET r == results[a]
          f == disk[a]
      IN  /\ <<r.found, r.parsed>> \in {<<FALSE, FALSE>>, <<TRUE, FALSE>>, <<TRUE, TRUE>>}
          /\ Absent(f) <=> ~r.found
          /\ Malformed(f) => r.found /\ ~r.parsed
          /\ ValidJson(f) => r.found /\ r.parsed /\ r.data = f.value
          /\ r.parsed => r.found
          /\ ~r.parsed => r.data = JNull
          /\ r.parsed <=> ValidJson(f)
          /\ r.error # <<>> <=> ~r.parsed

\* the three outcomes side by side in one run
C10_Witness ==
  /\ AllRead
  /\ ~results.gitleaks.found
  /\ results.trivyFs.found /\ ~results.trivyFs.parsed
  /\ results.dockle.parsed /\ results.dockle.data = JStr("ok")

-----------------------------------------------------------------------------
\* the shapes of a hardening file the summarizer is specified to recognise: a
\* top-level array, an object with a details array, an object with a scalar
\* level
ScalarValue(x) == x.t \in {"str", "num", "bool"}
RecognizedDockle(x) ==
  \/ IsArray(x)
  \/ x.t = "obj" /\ (IsArray(Get(x, "details")) \/ ScalarValue(Get(x, "level")))

\* the findings of a hardening value that carry a level: [at, level], at
\* <<i, 0>> for item i's own level and <<i, j>> for entry j of its details
\* (i = 0 for a top-level object)
LevelAt(x, i, j) ==
  IF ~Truthy(x) THEN Undefined
  ELSE IF j = 0 THEN Get(x, "level")
  ELSE IF IsArray(Get(x, "details")) /\ j \in DOMAIN Get(x, "details").v
          /\ Truthy(Get(x, "details").v[j])
  THEN Get(Get(x, "details").v[j], "level")
  ELSE Undefined

DetailIndexes(x) ==
  IF Truthy(x) /\ IsArray(Get(x, "details"))
  THEN DOMAIN Get(x, "details").v ELSE {}

DockleFindings(x) ==
  IF IsArray(x)
  THEN {[at |-> <<i, j>>, level |-> LevelAt(x.v[i], i, j)] :
          i \in DOMAIN x.v, j \in 0..MaxItems + 1}
  ELSE {[at |-> <<0, j>>, level |-> LevelAt(x, 0, j)] : j \in 0..MaxItems + 1}

LevelledFindings(x) == {f \in DockleFindings(x) : Truthy(f.level)}

EmptySummary == [t |-> "summary", counts |-> <<>>]

Sec03Unavailable ==
  Verdict(CONTROL_IDS.SEC03, STATUS_PASS,
          <<FILES.dockle,
            " present and valid (unable to infer finding levels; treating as informational)">>)

Sec03NoFindings ==
  Verdict(CONTROL_IDS.SEC03, STATUS_PASS,
          <<"Dockle scan clean (", "no findings", ")">>)

\* C11: a hardening value of no recognized shape (a primitive, or an object
\* with neither a details array nor a scalar level) gets no summary from
\* summarizeDockleFindings and the SEC-03 detail "unable to infer finding
\* levels"; a value of a recognized shape without findings gets the empty
\* summary and the SEC-03 detail "no findings"; the two details differ.
C11_UnavailableNotClean ==
  /\ (call.fn = "summarizeDockleFindings" /\ ret # NoRet) =>
       /\ ~RecognizedDockle(call.data) => ret = ReturnedValue(JNull)
       /\ (RecognizedDockle(call.data) /\ LevelledFindings(call.data) = {}) =>
            ret = ReturnedValue(EmptySummary)
  /\ (call.fn = "evaluateSec03" /\ ret # NoRet /\ ValidJson(call.file)) =>
       /\ ~RecognizedDockle(call.file.value) => ret = Returned(Sec03Unavailable)
       /\ (RecognizedDockle(call.file.value)
           /\ LevelledFindings(call.file.value) = {}) =>
            ret = Returned(Sec03NoFindings)
  /\ Sec03Unavailable.details # Sec03NoFindings.details

-----------------------------------------------------------------------------
\* the array fields of a secret-scan object, in the order they are preferred
AliasOrder == <<"findings", "Leaks", "leaks", "results">>

ArrayAliases(x) ==
  IF x.t = "obj"
  THEN {i \in DOMAIN AliasOrder : IsArray(Get(x, AliasOrder[i]))} ELSE {}

\* the preferred array field of an object that has one
FirstAlias(x) ==
  AliasOrder[CHOOSE i \in ArrayAliases(x) : \A j \in ArrayAliases(x) : i <= j]

HasNumericTotal(x) == x.t = "obj" /\ Get(x, "total").t = "num"

\* C12: inferGitleaksFindingCount returns the length of a top-level array;
\* else the length of the first of the fields findings, Leaks, leaks, results
\* that is an array; else a numeric total; for every other parsed value it
\* returns the unknown-structure error and no count (never zero), and SEC-01
\* then fails with the detail "Unable to determine findings".
C12_CountPriority ==
  /\ ReturnedBy("inferGitleaksFindingCount") =>
       LET x == call.data
           r == ret.value
       IN  IF IsArray(x) THEN r.count = JNum(Len(x.v)) /\ r.error = <<>>
           ELSE IF ArrayAliases(x) # {}
           THEN r.count = JNum(Len(x.v[FirstAlias(x)].v)) /\ r.error = <<>>
           ELSE IF HasNumericTotal(x) THEN r.count = x.v.total /\ r.error = <<>>
           ELSE /\ r.count = JNull
                /\ r.error =
                     <<"Unknown Gitleaks JSON structure (no findings array found)">>
  /\ call.fn = "inferGitleaksFindingCount" => ret # Thrown
  /\ (ReturnedBy("evaluateSec01") /\ ValidJson(call.file)
      /\ ~IsArray(call.file.value) /\ ArrayAliases(call.file.value) = {}
      /\ ~HasNumericTotal(call.file.value)) =>
       /\ ret.verdict.status = STATUS_FAIL
       /\ ret.verdict.details =
            <<"Unable to determine findings in ", "gitleaks.json", ": ",
              "Unknown Gitleaks JSON structure (no findings array found)">>

\* an object whose leaks and results are arrays of different lengths, whose
\* findings is no array and which has a numeric total: leaks is counted
C12_Witness ==
  /\ ReturnedBy("inferGitleaksFindingCount")
  /\ ArrayAliases(call.data) = {3, 4}
  /\ "findings" \in DOMAIN call.data.v
  /\ HasNumericTotal(call.data)
  /\ Len(call.data.v.leaks.v) = 2
  /\ Len(call.data.v.results.v) = 0
  /\ ret.value.count = JNum(2)

-----------------------------------------------------------------------------
HasResults(x) == x.t = "obj" /\ IsArray(Get(x, "Results"))

\* the vulnerability entries of a value with Results, each by its position
VulnPositions(x) ==
  UNION {{<<i, j>> : j \in (IF IsArray(Get(x.v.Results.v[i], "Vulnerabilities"))
                           THEN DOMAIN Get(x.v.Results.v[i], "Vulnerabilities").v
                           ELSE {})} :
           i \in DOMAIN x.v.Results.v}

VulnAt(x, at) == Get(x.v.Results.v[at[1]], "Vulnerabilities").v[at[2]]

\* the label an entry is specified to be counted under
ClaimedLabel(vuln) ==
  LET sev == Get(vuln, "Severity")
  IN  IF sev.t = "str" /\ ToUpper(sev.v) \in SeveritySet
      THEN ToUpper(sev.v) ELSE "UNKNOWN"

\* C13: for an object with an array Results, summarizeTrivyVulns returns a
\* summary counting every entry of every result's Vulnerabilities once, under
\* its Severity uppercased when that is one of the five labels and under
\* UNKNOWN otherwise, so total is the sum of the five counts and the number
\* of entries; for every other value it returns null, not a zero summary.
C13_EveryEntryCountedOnce ==
  (call.fn = "summarizeTrivyVulns" /\ ret # NoRet) =>
    IF HasResults(call.data)
    THEN /\ ret.t = "returned"
         /\ ret.value.t = "summary"
         /\ \A L \in SeveritySet :
              ret.value.counts[L] =
                Cardinality({at \in VulnPositions(call.data) :
                               ClaimedLabel(VulnAt(call.data, at)) = L})
         /\ ret.value.total = Cardinality(VulnPositions(call.data))
         /\ ret.value.total = SumCounts(TRIVY_SEVERITIES, ret.value.counts)
    ELSE ret = ReturnedValue(JNull)

-----------------------------------------------------------------------------
\* the levels, uppercased, of the findings of a hardening value (a level
\* that String() cannot convert has no uppercased form)
UpperLevels(x) ==
  {ToUpper(String(f.level)) :
     f \in {g \in LevelledFindings(x) : ~StringThrows(g.level)}}

SummaryLevels(summary) == {summary.counts[i].level : i \in DOMAIN summary.counts}

\* C14: for a top-level array or object, summarizeDockleFindings returns,
\* for each level L, the number of findings whose level uppercased is L: the
\* findings of an array are its items' levels and the levels of the entries
\* of its items' details; those of an object are the levels of the entries
\* of its details and its own level.  A finding written warn or Fatal is
\* counted under WARN or FATAL and SEC-03 is FAIL.
C14_LevelsCountedUppercased ==
  /\ (call.fn = "summarizeDockleFindings" /\ ret # NoRet
      /\ (IsArray(call.data) \/ call.data.t = "obj")) =>
       /\ ret.t = "returned"
       /\ ret.value.t = "summary"
       /\ SummaryLevels(ret.value) = UpperLevels(call.data)
       /\ \A L \in UpperLevels(call.data) :
            CountOf(ret.value.counts, L) =
              Cardinality({f \in LevelledFindings(call.data) :
                             ToUpper(String(f.level)) = L})
  /\ (call.fn = "evaluateSec03" /\ ret # NoRet /\ ValidJson(call.file)
      /\ (IsArray(call.file.value) \/ call.file.value.t = "obj")
      /\ \E f \in LevelledFindings(call.file.value) :
           f.level \in {JStr("warn"), JStr("Fatal")}) =>
       /\ ret.t = "returned"
       /\ ret.verdict.status = STATUS_FAIL

-----------------------------------------------------------------------------
\* the position after the last piece of the line that starts at p
LineEnd(doc, p) ==
  CHOOSE q \in p..Len(doc) + 1 :
    /\ q = Len(doc) + 1 \/ doc[q] = "\n"
    /\ \A r \in p..q - 1 : doc[r] # "\n"

\* the pipes of the line at p that delimit cells: those not behind a backslash
CellPipes(doc, p) ==
  {q \in p..LineEnd(doc, p) - 1 : doc[q] = "|" /\ (q = p \/ doc[q - 1] # "\\")}

\* the lines of the Control Summary table: the run of non-empty lines that
\* starts at its header
TableLines(doc) ==
  LET header == CHOOSE p \in LineStarts(doc) :
                  p + 1 <= Len(doc) /\ doc[p] = "|" /\ doc[p + 1] = " Control "
  IN  {p \in LineStarts(doc) :
         /\ p >= header
         /\ \A q \in LineStarts(doc) : (header <= q /\ q <= p) => LineEnd(doc, q) > q}

\* the k-th smallest member of a set of numbers
Nth(S, k) == CHOOSE p \in S : Cardinality({q \in S : q < p}) = k - 1

\* every '|' of the details of a table row stands behind a backslash
PipesEscaped ==
  ReturnedBy("renderMarkdown") =>
    \A p \in RowStarts(ret.text) :
      \A q \in p + 9..LineEnd(ret.text, p) - 2 :
        ret.text[q] = "|" => ret.text[q - 1] = "\\"

\* C15: in the table renderMarkdown returns, every '|' of a verdict's details
\* stands behind a backslash, and every verdict has one table line of its
\* own with exactly three cells: the table is its header, its separator and
\* one such row per verdict, in order.
C15_TableNeverMalformed ==
  /\ PipesEscaped
  /\ ReturnedBy("renderMarkdown") =>
       LET doc == ret.text
           cs == ret.controls
           rows == RowStarts(doc)
       IN  /\ Cardinality(TableLines(doc)) = 2 + Len(cs)
           /\ Cardinality(rows) = Len(cs)
           /\ \A k \in DOMAIN cs :
                LET p == Nth(rows, k)
                    e == LineEnd(doc, p) - 1
                IN  /\ p \in TableLines(doc)
                    /\ doc[p + 2] = cs[k].id
                    /\ doc[p + 6] = cs[k].status
                    /\ doc[e] = "|"
                    /\ Cardinality(CellPipes(doc, p)) = 4

-----------------------------------------------------------------------------
\* the lines of a document that are the heading of the failing-controls
\* section, and those that are its bullets: - id: details
HeadingStarts(doc) ==
  {p \in LineStarts(doc) :
     p <= Len(doc) /\ doc[p] = "### Failing Controls" /\ LineEnd(doc, p) = p + 1}

BulletStarts(doc) ==
  {p \in LineStarts(doc) :
     /\ p + 2 <= Len(doc)
     /\ doc[p] = "- " /\ doc[p + 1] \in ControlIdSet /\ doc[p + 2] = ": "}

FailingIndexes(cs) == {k \in DOMAIN cs : cs[k].status = STATUS_FAIL}

\* C16: the document renderMarkdown returns has the Failing Controls heading
\* exactly when some verdict handed to it is FAIL; under the heading there is
\* one bullet per failing verdict, in the verdicts' order, with that
\* verdict's id and details (verbatim, a line break in them included) up
\* to the end of a line, and no bullet for a passing verdict; the heading
\* is there exactly when the document's overall status reads FAIL.
C16_FailingSection ==
  ReturnedBy("renderMarkdown") =>
    LET doc == ret.text
        cs == ret.controls
        failing == FailingIndexes(cs)
        bullets == BulletStarts(doc)
    IN  /\ HeadingStarts(doc) # {} <=> failing # {}
        /\ Cardinality(HeadingStarts(doc)) <= 1
        /\ Cardinality(bullets) = Cardinality(failing)
        /\ \A n \in 1..Cardinality(failing) :
             LET k == Nth(failing, n)
                 p == Nth(bullets, n)
                 e == p + 3 + Len(cs[k].details)
             IN  /\ \A h \in HeadingStarts(doc) : h < p
                 /\ doc[p + 1] = cs[k].id
                 /\ e <= Len(doc) + 1
                 /\ SubSeq(doc, p + 3, e - 1) = cs[k].details
                 /\ e = Len(doc) + 1 \/ doc[e] = "\n"
        /\ HeadingStarts(doc) # {} <=> DocOverall(doc) = {STATUS_FAIL}

\* a document rendered for verdicts of which the first and the last pass and
\* two or more in between fail
C16_Witness ==
  /\ ReturnedBy("renderMarkdown")
  /\ ret.controls[1].status = STATUS_PASS
  /\ ret.controls[6].status = STATUS_PASS
  /\ Cardinality(FailingIndexes(ret.controls)) >= 2
  /\ Cardinality(BulletStarts(ret.text)) = Cardinality(FailingIndexes(ret.controls))
  /\ HeadingStarts(ret.text) # {}

\* a document rendered for six passing verdicts: no section
C16_WitnessAllPass ==
  /\ ReturnedBy("renderMarkdown")
  /\ FailingIndexes(ret.controls) = {}
  /\ HeadingStarts(ret.text) = {}

-----------------------------------------------------------------------------
ControlOrder ==
  <<CONTROL_IDS.SEC01, CONTROL_IDS.SEC02, CONTROL_IDS.SEC03,
    CONTROL_IDS.SEC04, CONTROL_IDS.SEC05, CONTROL_IDS.SEC06>>

\* the table of a document has six rows, SEC-01 to SEC-06 in this order
SixRowsInOrder(doc) ==
  LET rows == RowStarts(doc)
  IN  /\ Cardinality(rows) = 6
      /\ \A k \in 1..6 : doc[Nth(rows, k) + 2] = ControlOrder[k]

\* C17: whatever the five files are (absent, unreadable, not JSON, of an
\* unrecognized shape) and whether or not mkdir and writeFile fail, a run
\* that has ended has printed on the console a document with exactly six
\* verdict rows, SEC-01 to SEC-06 in this order, and has set its exit
\* status; no run ends in main().catch.
C17_NoRunAborts ==
  Ended =>
    /\ pc = "exited"
    /\ Len(stdout) = 3
    /\ stdout[2] = consoleMarkdown
    /\ SixRowsInOrder(stdout[2])
    /\ exitCode \in {0, 1}

\* the runs that do not end in main().catch end as C17 says
ExitedRunsPrintSixRows ==
  pc = "exited" =>
    /\ Len(stdout) = 3
    /\ stdout[2] = consoleMarkdown
    /\ SixRowsInOrder(stdout[2])
    /\ exitCode \in {0, 1}

-----------------------------------------------------------------------------
\* what the files on disk determine, whatever the order the reads completed
\* in: the five results, the three summaries and the five verdicts
ResultsOfDisk ==
  [a \in Artifacts |-> readJsonArtifact(ARTIFACT_DIR, FILES[a], disk[a])]

SummariesOfDisk ==
  [trivyFs |-> TrivySummaryOf(ResultsOfDisk.trivyFs),
   trivyImage |-> TrivySummaryOf(ResultsOfDisk.trivyImage),
   dockle |-> DockleSummaryOf(ResultsOfDisk.dockle)]

NoSummaries == [trivyFs |-> JNull, trivyImage |-> JNull, dockle |-> JNull]

\* C18: a read that has completed holds the result of its own file; while a
\* read is outstanding no summary has been derived and no control evaluated;
\* once all five have completed, the summaries, the six verdicts, the
\* overall status and the exit status are those the five files and the
\* outcome of the write determine, whatever order the reads completed in.
C18_ReadsJoinBeforeEvaluation ==
  /\ \A a \in Artifacts :
       results[a] # Pending =>
         /\ disk[a] # Pending
         /\ results[a] = readJsonArtifact(ARTIFACT_DIR, FILES[a], disk[a])
  /\ ~AllRead =>
       /\ pc \in {"start", "reading"}
       /\ summaries = NoSummaries
       /\ controls = <<>>
       /\ allControlsForConsole = <<>>
  /\ pc \in {"writing", "written", "exited"} =>
       /\ AllRead
       /\ summaries = SummariesOfDisk
       /\ controls = ControlsOf(ResultsOfDisk, SummariesOfDisk)
  /\ pc = "exited" =>
       LET six == Append(ControlsOf(ResultsOfDisk, SummariesOfDisk),
                         FinalSec06(writeSucceeded))
       IN  /\ allControlsForConsole = six
           /\ finalOverallStatus = computeOverallStatus(six)
           /\ exitCode = IF computeOverallStatus(six) = STATUS_PASS THEN 0 ELSE 1
  /\ pc \in {"rejected", "failed"} =>
       /\ AllRead
       /\ \E k \in DOMAIN SummariesOfDisk : SummariesOfDisk[k] = Thrown
       /\ controls = <<>>

\* the read started last has completed, the one started first has not, and
\* nothing has been evaluated
C18_Witness ==
  /\ pc = "reading"
  /\ results.sbom # Pending
  /\ results.dockle # Pending
  /\ results.gitleaks = Pending
  /\ controls = <<>>
  /\ summaries = NoSummaries

-----------------------------------------------------------------------------
\* the lines of a document that start with a piece, and the text of a line
LinesWith(doc, prefix) ==
  {p \in LineStarts(doc) : p <= Len(doc) /\ doc[p] = prefix}

LineText(doc, p) == SubSeq(doc, p, LineEnd(doc, p) - 1)

IsUnset(name) == env[name] = Undefined

\* the one line of the pipeline context that starts with the prefix reads
\* as the text
ContextLineIs(doc, prefix, text) ==
  \A p \in LinesWith(doc, prefix) : LineText(doc, p) = text

\* C19: the document renderMarkdown returns always has the four lines of the
\* pipeline context; Commit, Ref and Repository read n/a when GITHUB_SHA,
\* GITHUB_REF, GITHUB_REPOSITORY is unset, and Run URL reads n/a whenever
\* GITHUB_RUN_ID or GITHUB_REPOSITORY is unset.
C19_ContextPlaceholders ==
  ReturnedBy("renderMarkdown") =>
    LET doc == ret.text
    IN  /\ \A prefix \in {"- Commit: ", "- Ref: ", "- Repository: ", "- Run URL: "} :
             Cardinality(LinesWith(doc, prefix)) = 1
        /\ IsUnset("GITHUB_SHA") =>
             ContextLineIs(doc, "- Commit: ",
                           <<"- Commit: ", Backtick, "n/a", Backtick>>)
        /\ IsUnset("GITHUB_REF") =>
             ContextLineIs(doc, "- Ref: ", <<"- Ref: ", Backtick, "n/a", Backtick>>)
        /\ IsUnset("GITHUB_REPOSITORY") =>
             ContextLineIs(doc, "- Repository: ",
                           <<"- Repository: ", Backtick, "n/a", Backtick>>)
        /\ (IsUnset("GITHUB_RUN_ID") \/ IsUnset("GITHUB_REPOSITORY")) =>
             ContextLineIs(doc, "- Run URL: ", <<"- Run URL: ", "n/a">>)

\* C19 but for the run URL of a run whose repository is unset
ContextPlaceholdersButRepoUrl ==
  ReturnedBy("renderMarkdown") =>
    LET doc == ret.text
    IN  /\ \A prefix \in {"- Commit: ", "- Ref: ", "- Repository: ", "- Run URL: "} :
             Cardinality(LinesWith(doc, prefix)) = 1
        /\ IsUnset("GITHUB_SHA") =>
             ContextLineIs(doc, "- Commit: ",
                           <<"- Commit: ", Backtick, "n/a", Backtick>>)
        /\ IsUnset("GITHUB_REF") =>
             ContextLineIs(doc, "- Ref: ", <<"- Ref: ", Backtick, "n/a", Backtick>>)
        /\ IsUnset("GITHUB_REPOSITORY") =>
             ContextLineIs(doc, "- Repository: ",
                           <<"- Repository: ", Backtick, "n/a", Backtick>>)
        /\ IsUnset("GITHUB_RUN_ID") =>
             ContextLineIs(doc, "- Run URL: ", <<"- Run URL: ", "n/a">>)

-----------------------------------------------------------------------------
\* the text of the k-th table row of a document
RowText(doc, k) == LineText(doc, Nth(RowStarts(doc), k))

\* C20: once both documents exist, the one handed to writeFile and the one
\* printed carry the same id, status and details for SEC-01 to SEC-05; when
\* the write succeeded they also show the same SEC-06 status and the same
\* overall status, so the file on disk shows PASS exactly in the runs that
\* exit with zero.
C20_FileAgreesWithConsole ==
  consoleMarkdown # <<>> =>
    /\ SixRowsInOrder(markdownContent)
    /\ SixRowsInOrder(consoleMarkdown)
    /\ LET fileRows == RowStarts(markdownContent)
           consoleRows == RowStarts(consoleMarkdown)
       IN  \A k \in 1..5 :
             /\ allControlsForFile[k] = allControlsForConsole[k]
             /\ LineText(markdownContent, Nth(fileRows, k))
                  = LineText(consoleMarkdown, Nth(consoleRows, k))
    /\ Written =>
         LET onDisk == DocOverall(reportFile)
         IN  /\ DocSec06(reportFile) = DocSec06(consoleMarkdown)
             /\ onDisk = DocOverall(consoleMarkdown)
             /\ onDisk = {STATUS_PASS} => exitCode = 0
             /\ onDisk = {STATUS_FAIL} => exitCode # 0

\* a run that wrote a file showing FAIL and exited with 1, and whose two
\* documents differ in the details of SEC-06 only
C20_Witness ==
  /\ pc = "exited"
  /\ Written
  /\ DocOverall(reportFile) = {STATUS_FAIL}
  /\ exitCode = 1
  /\ RowText(reportFile, 6) # RowText(consoleMarkdown, 6)
  /\ \A k \in 1..5 : RowText(reportFile, k) = RowText(consoleMarkdown, k)

\* a run that wrote a file showing PASS and exited with 0
C20_WitnessPass ==
  /\ pc = "exited"
  /\ Written
  /\ DocOverall(reportFile) = {STATUS_PASS}
  /\ exitCode = 0

=============================================================================
